---- MODULE Spec2Model ----
(***************************************************************************)
(* State machine of the App component of src/frontend/src/App.jsx: the     *)
(* React state of the game page, its event handlers, and the two requests  *)
(* (new-game, check-answer) it keeps in flight.  A handler runs to its     *)
(* first await in one step; the code after the await runs in a second step *)
(* when the response arrives.                                              *)
(***************************************************************************)
EXTENDS Integers, Sequences, FiniteSets, TLC

VARIABLES
  playerName,      \* useState('')      line 125, a sequence of UTF-16 code units
  sessionId,       \* useState(null)    line 126
  cities,          \* useState([])      line 127
  homeCity,        \* useState(null)    line 128
  distanceMatrix,  \* useState([])      line 129
  selectedCities,  \* useState([])      line 130
  routeBetween,    \* useState([])      line 131
  result,          \* useState(null)    line 132
  loading,         \* useState(false)   line 133
  error,           \* useState(null)    line 134
  cityPositions,   \* useState({})      line 135
  newGameReqs,     \* new-game requests awaiting their response (line 160)
  checkReqs,       \* check-answer request bodies awaiting their response (line 228)
  issued,          \* number of new-game requests sent so far
  lastOk           \* the last successful new-game response handled, with its request

vars == <<playerName, sessionId, cities, homeCity, distanceMatrix, selectedCities,
          routeBetween, result, loading, error, cityPositions, newGameReqs,
          checkReqs, issued, lastOk>>

sessionVars == <<sessionId, cities, homeCity, distanceMatrix>>

-----------------------------------------------------------------------------
(* Bounds and input domains *)

\* new-game requests sent in one behaviour
MaxGames == 2

\* the cap the page announces: "You can choose up to 8 cities" (line 365)
MaxSelected == 8

\* a JavaScript null / undefined is <<>>, a present value v is <<v>>
Null == <<>>
Some(v) == <<v>>

Range(s) == {s[i] : i \in 1..Len(s)}

\* the texts the player can type into the name field (line 312), as code
\* units: a tab alone, and no-break space, "N", line feed
Names == { <<9>>, <<160, 78, 10>> }

\* city lists a round can carry; the page's hint names the pool A..J (line 323)
SmallPool == <<"A", "B", "C">>
FullPool == <<"A", "B", "C", "D", "E", "F", "G", "H", "I", "J">>
CityLists == {SmallPool, SubSeq(SmallPool, 1, 2)}

\* off-diagonal distance of a generated matrix ("50-100 km", line 322)
Dists == {50}

\* outcomes of Math.random() used for a coordinate, in tenths (line 143)
Draws == {5}

\* messages of { error: message } bodies; <<>> is a body without the field
ErrorFields == {Null, Some(""), Some("Session not found")}

\* messages of errors thrown by fetch or res.json()
ThrownMessages == {"Failed to fetch"}

-----------------------------------------------------------------------------
(* Pure helpers *)

\* ECMAScript WhiteSpace: TAB, VT, FF, ZWNBSP and the space separators (Zs)
\* SP, NBSP, U+1680, U+2000..U+200A, U+202F, U+205F, U+3000
WhiteSpace == {9, 11, 12, 65279, 32, 160, 5760, 8239, 8287, 12288} \cup (8192..8202)

\* ECMAScript LineTerminator: LF, CR, LS, PS
LineTerminator == {10, 13, 8232, 8233}

\* the code units String.prototype.trim strips
IsSpace(ch) == ch \in WhiteSpace \cup LineTerminator

\* String.prototype.trim (lines 154, 217)
RECURSIVE TrimLeft(_)
TrimLeft(s) == IF s # <<>> /\ IsSpace(Head(s)) THEN TrimLeft(Tail(s)) ELSE s

RECURSIVE TrimRight(_)
TrimRight(s) ==
  IF s # <<>> /\ IsSpace(s[Len(s)]) THEN TrimRight(SubSeq(s, 1, Len(s) - 1)) ELSE s

Trim(s) == TrimRight(TrimLeft(s))

\* !playerName.trim()
BlankName(s) == Trim(s) = <<>>

\* Array.prototype.includes
Includes(s, x) == \E i \in 1..Len(s) : s[i] = x

\* Array.prototype.filter with the predicate "is a member of keep"
RECURSIVE FilterIn(_, _)
FilterIn(s, keep) ==
  IF s = <<>> THEN <<>>
  ELSE IF Head(s) \in keep THEN <<Head(s)>> \o FilterIn(Tail(s), keep)
  ELSE FilterIn(Tail(s), keep)

\* prev.filter((c) => c !== city)
Without(s, city) == FilterIn(s, Range(s) \ {city})

\* ErrorMessage that ignores the body's message
ErrorMessage_FallbackOnly(field, fallback) == fallback

\* data.error || fallback, then new Error(...).message (lines 166, 238)
ErrorMessage(field, fallback) ==
  IF field = Null \/ field[1] = "" THEN fallback ELSE field[1]

\* the N x N matrix of a round: zero diagonal, d elsewhere
Matrix(n, d) == [i \in 1..n |-> [j \in 1..n |-> IF i = j THEN 0 ELSE d]]

\* the bodies a successful new-game response can carry for session id
NewGameData(id, lists) ==
  UNION { { [sessionId |-> id, cities |-> cl, homeCity |-> cl[h],
             distanceMatrix |-> Matrix(Len(cl), d)] :
              h \in 1..Len(cl), d \in Dists } : cl \in lists }

\* generateRandomPositions that starts from the positions on the page
generateRandomPositions_KeepsOld(cityList, draw) ==
  [c \in DOMAIN cityPositions \cup Range(cityList) |->
     [x |-> 30 + (draw[1][1] * (260 - 30 * 2)) \div 10,
      y |-> 30 + (draw[1][2] * (260 - 30 * 2)) \div 10]]

\* generateRandomPositions (lines 137-148); draw[i] are the two Math.random()
\* outcomes for cityList[i]
generateRandomPositions(cityList, draw) ==
  [c \in Range(cityList) |->
     LET i == CHOOSE k \in 1..Len(cityList) :
                 cityList[k] = c /\ \A m \in (k+1)..Len(cityList) : cityList[m] # c
     IN [x |-> 30 + (draw[i][1] * (260 - 30 * 2)) \div 10,
         y |-> 30 + (draw[i][2] * (260 - 30 * 2)) \div 10]]

\* fullRoute of CityMap (line 35) and the "current path" (lines 401-407)
FullRoute(home, rb) == <<home>> \o rb \o <<home>>

-----------------------------------------------------------------------------
(* Initial state: the useState initial values, nothing in flight *)

Init ==
  /\ playerName = <<>>
  /\ sessionId = Null
  /\ cities = <<>>
  /\ homeCity = Null
  /\ distanceMatrix = <<>>
  /\ selectedCities = <<>>
  /\ routeBetween = <<>>
  /\ result = Null
  /\ loading = FALSE
  /\ error = Null
  /\ cityPositions = <<>>
  /\ newGameReqs = {}
  /\ checkReqs = <<>>
  /\ issued = 0
  /\ lastOk = Null

-----------------------------------------------------------------------------
(* Event handlers *)

\* onChange of the name field (line 312)
setPlayerName(v) ==
  /\ playerName' = v
  /\ UNCHANGED <<sessionId, cities, homeCity, distanceMatrix, selectedCities,
                 routeBetween, result, loading, error, cityPositions,
                 newGameReqs, checkReqs, issued, lastOk>>

\* startNewGame up to its await (lines 150-164)
startNewGame ==
  /\ result' = Null
  /\ IF BlankName(playerName)
       THEN /\ error' = Some("Please enter your player name first.")
            /\ UNCHANGED <<newGameReqs, issued>>
       ELSE /\ issued < MaxGames
            /\ error' = Null
            /\ issued' = issued + 1
            /\ newGameReqs' = newGameReqs \cup {issued + 1}
  /\ UNCHANGED <<playerName, sessionId, cities, homeCity, distanceMatrix,
                 selectedCities, routeBetween, loading, cityPositions,
                 checkReqs, lastOk>>

\* newGameSucceeded without the two resets of lines 172-173
newGameSucceeded_KeepsRoute(r, data, draw) ==
  /\ r \in newGameReqs
  /\ newGameReqs' = newGameReqs \ {r}
  /\ sessionId' = Some(data.sessionId)
  /\ cities' = data.cities
  /\ homeCity' = Some(data.homeCity)
  /\ distanceMatrix' = data.distanceMatrix
  /\ cityPositions' = generateRandomPositions(data.cities, draw)
  /\ lastOk' = Some([req |-> r, data |-> data])
  /\ UNCHANGED <<playerName, selectedCities, routeBetween, result, loading,
                 error, checkReqs, issued>>

\* startNewGame after the await, res.ok (lines 165-176)
newGameSucceeded(r, data, draw) ==
  /\ r \in newGameReqs
  /\ newGameReqs' = newGameReqs \ {r}
  /\ sessionId' = Some(data.sessionId)
  /\ cities' = data.cities
  /\ homeCity' = Some(data.homeCity)
  /\ distanceMatrix' = data.distanceMatrix
  /\ selectedCities' = <<>>
  /\ routeBetween' = <<>>
  /\ cityPositions' = generateRandomPositions(data.cities, draw)
  /\ lastOk' = Some([req |-> r, data |-> data])
  /\ UNCHANGED <<playerName, result, loading, error, checkReqs, issued>>

\* newGameFailed that also drops the session id
newGameFailed_DropsSession(r, field) ==
  /\ r \in newGameReqs
  /\ newGameReqs' = newGameReqs \ {r}
  /\ error' = Some(ErrorMessage(field, "Failed to start game"))
  /\ sessionId' = Null
  /\ UNCHANGED <<playerName, cities, homeCity, distanceMatrix,
                 selectedCities, routeBetween, result, loading, cityPositions,
                 checkReqs, issued, lastOk>>

\* startNewGame after the await, !res.ok with body { error: field } (lines 166, 177-179)
newGameFailed(r, field) ==
  /\ r \in newGameReqs
  /\ newGameReqs' = newGameReqs \ {r}
  /\ error' = Some(ErrorMessage(field, "Failed to start game"))
  /\ UNCHANGED <<playerName, sessionId, cities, homeCity, distanceMatrix,
                 selectedCities, routeBetween, result, loading, cityPositions,
                 checkReqs, issued, lastOk>>

\* startNewGame when fetch or res.json() throws (lines 160-165, 177-179)
newGameThrew(r, msg) ==
  /\ r \in newGameReqs
  /\ newGameReqs' = newGameReqs \ {r}
  /\ error' = Some(msg)
  /\ UNCHANGED <<playerName, sessionId, cities, homeCity, distanceMatrix,
                 selectedCities, routeBetween, result, loading, cityPositions,
                 checkReqs, issued, lastOk>>

\* the updater of setSelectedCities (lines 187-188)
ToggledSelection(prev, city) ==
  IF Includes(prev, city) THEN Without(prev, city) ELSE Append(prev, city)

\* PrunedRoute that leaves the route as it is
PrunedRoute_Keeps(rb, next) == rb

\* the updater of setRouteBetween nested in it (line 190)
PrunedRoute(rb, next) == FilterIn(rb, Range(next))

\* toggleSelectedCity without the home test of line 183
toggleSelectedCity_NoHomeGuard(city) ==
  /\ result' = Null
  /\ selectedCities' = ToggledSelection(selectedCities, city)
  /\ routeBetween' = PrunedRoute(routeBetween, ToggledSelection(selectedCities, city))
  /\ UNCHANGED <<playerName, sessionId, cities, homeCity, distanceMatrix,
                 loading, error, cityPositions, newGameReqs, checkReqs,
                 issued, lastOk>>

\* toggleSelectedCity (lines 182-193)
toggleSelectedCity(city) ==
  IF Some(city) = homeCity
    THEN UNCHANGED vars
    ELSE /\ result' = Null
         /\ selectedCities' = ToggledSelection(selectedCities, city)
         /\ routeBetween' = PrunedRoute(routeBetween, ToggledSelection(selectedCities, city))
         /\ UNCHANGED <<playerName, sessionId, cities, homeCity, distanceMatrix,
                        loading, error, cityPositions, newGameReqs, checkReqs,
                        issued, lastOk>>

\* ExtendedRoute without the includes test of line 200
ExtendedRoute_Repeats(prev, city) == Append(prev, city)

\* the updater of setRouteBetween in addToRoute (lines 199-202)
ExtendedRoute(prev, city) == IF Includes(prev, city) THEN prev ELSE Append(prev, city)

\* addToRoute (lines 195-203)
addToRoute(city) ==
  IF ~Includes(selectedCities, city)
    THEN UNCHANGED vars
    ELSE /\ result' = Null
         /\ routeBetween' = ExtendedRoute(routeBetween, city)
         /\ UNCHANGED <<playerName, sessionId, cities, homeCity, distanceMatrix,
                        selectedCities, loading, error, cityPositions,
                        newGameReqs, checkReqs, issued, lastOk>>

\* clearRoute (lines 205-207)
clearRoute ==
  /\ routeBetween' = <<>>
  /\ UNCHANGED <<playerName, sessionId, cities, homeCity, distanceMatrix,
                 selectedCities, result, loading, error, cityPositions,
                 newGameReqs, checkReqs, issued, lastOk>>

\* SubmitRejection without the empty-route test of lines 221-224
SubmitRejection_NoRouteCheck(sid, name, rb) ==
  IF sid = Null \/ sid[1] = 0 THEN Some("Start a new game first.")
  ELSE IF BlankName(name) THEN Some("Please enter your player name.")
  ELSE Null

\* the message submitAnswer rejects with, Null when it goes on to fetch (lines 213-224)
SubmitRejection(sid, name, rb) ==
  IF sid = Null \/ sid[1] = 0 THEN Some("Start a new game first.")
  ELSE IF BlankName(name) THEN Some("Please enter your player name.")
  ELSE IF Len(rb) = 0 THEN Some("Build a route by clicking on selected cities.")
  ELSE Null

\* CheckAnswerBody, sending the home-to-home route instead of routeBetween
CheckAnswerBody_HomeToHome(sid, name, rb) ==
  [sessionId |-> sid[1], playerName |-> name, routeBetween |-> FullRoute(homeCity[1], rb)]

\* the JSON body of the check-answer request (lines 231-235)
CheckAnswerBody(sid, name, rb) ==
  [sessionId |-> sid[1], playerName |-> name, routeBetween |-> rb]

\* submitAnswer up to its await (lines 209-236)
submitAnswer ==
  /\ result' = Null
  /\ IF SubmitRejection(sessionId, playerName, routeBetween) # Null
       THEN /\ error' = SubmitRejection(sessionId, playerName, routeBetween)
            /\ UNCHANGED <<loading, checkReqs>>
       ELSE /\ error' = Null
            /\ loading' = TRUE
            /\ checkReqs' = Append(checkReqs,
                                   CheckAnswerBody(sessionId, playerName, routeBetween))
  /\ UNCHANGED <<playerName, sessionId, cities, homeCity, distanceMatrix,
                 selectedCities, routeBetween, cityPositions, newGameReqs,
                 issued, lastOk>>

RemoveAt(s, i) == SubSeq(s, 1, i - 1) \o SubSeq(s, i + 1, Len(s))

\* the report a successful check-answer response carries for request body req:
\* the route it judged and the correct flag
Report(req, correct) ==
  [sessionId |-> req.sessionId, routeBetween |-> req.routeBetween, correct |-> correct]

\* submitAnswer after the await, res.ok (lines 237-239, 242-244)
checkSucceeded(i, correct) ==
  /\ i \in 1..Len(checkReqs)
  /\ checkReqs' = RemoveAt(checkReqs, i)
  /\ result' = Some(Report(checkReqs[i], correct))
  /\ loading' = FALSE
  /\ UNCHANGED <<playerName, sessionId, cities, homeCity, distanceMatrix,
                 selectedCities, routeBetween, error, cityPositions,
                 newGameReqs, issued, lastOk>>

\* submitAnswer after the await, !res.ok with body { error: field } (lines 238, 240-244)
checkFailed(i, field) ==
  /\ i \in 1..Len(checkReqs)
  /\ checkReqs' = RemoveAt(checkReqs, i)
  /\ error' = Some(ErrorMessage(field, "Failed to check answer"))
  /\ loading' = FALSE
  /\ UNCHANGED <<playerName, sessionId, cities, homeCity, distanceMatrix,
                 selectedCities, routeBetween, result, cityPositions,
                 newGameReqs, issued, lastOk>>

\* checkThrew without the finally block of lines 242-244
checkThrew_KeepsLoading(i, msg) ==
  /\ i \in 1..Len(checkReqs)
  /\ checkReqs' = RemoveAt(checkReqs, i)
  /\ error' = Some(msg)
  /\ UNCHANGED <<playerName, sessionId, cities, homeCity, distanceMatrix,
                 selectedCities, routeBetween, result, loading, cityPositions,
                 newGameReqs, issued, lastOk>>

\* submitAnswer when fetch or res.json() throws (lines 228-237, 240-244)
checkThrew(i, msg) ==
  /\ i \in 1..Len(checkReqs)
  /\ checkReqs' = RemoveAt(checkReqs, i)
  /\ error' = Some(msg)
  /\ loading' = FALSE
  /\ UNCHANGED <<playerName, sessionId, cities, homeCity, distanceMatrix,
                 selectedCities, routeBetween, result, cityPositions,
                 newGameReqs, issued, lastOk>>

-----------------------------------------------------------------------------
(* What the rendered page lets the player do *)

\* the city chips are rendered once a matrix is there (lines 330, 342-351)
CityChips == IF Len(distanceMatrix) > 0 THEN Range(cities) ELSE {}

\* the route panel is rendered once a city is selected (line 371)
RoutePanelShown == Len(selectedCities) > 0

\* a submit button that stays enabled while loading
SubmitEnabled_WhileLoading == RoutePanelShown

\* the submit button is disabled while loading (lines 417-421)
SubmitEnabled == RoutePanelShown /\ ~loading

\* the session id the server gives the next round it creates
NextSessionId == IF lastOk = Null THEN 1 ELSE lastOk[1].data.sessionId + 1

DrawsFor(cl) == [1..Len(cl) -> Draws \X Draws]

Next ==
  \/ \E v \in Names : setPlayerName(v)
  \/ startNewGame
  \/ \E r \in newGameReqs :
       \E data \in NewGameData(NextSessionId, CityLists) :
         \E draw \in DrawsFor(data.cities) : newGameSucceeded(r, data, draw)
  \/ \E r \in newGameReqs : \E f \in ErrorFields : newGameFailed(r, f)
  \/ \E r \in newGameReqs : \E m \in ThrownMessages : newGameThrew(r, m)
  \/ \E c \in CityChips : toggleSelectedCity(c)
  \/ \E c \in CityChips : RoutePanelShown /\ addToRoute(c)
  \/ RoutePanelShown /\ clearRoute
  \/ SubmitEnabled /\ submitAnswer
  \/ \E i \in 1..Len(checkReqs) : \E ok \in BOOLEAN : checkSucceeded(i, ok)
  \/ \E i \in 1..Len(checkReqs) : \E f \in ErrorFields : checkFailed(i, f)
  \/ \E i \in 1..Len(checkReqs) : \E m \in ThrownMessages : checkThrew(i, m)

Spec == Init /\ [][Next]_vars

-----------------------------------------------------------------------------
(* The same page on a round over the whole pool A..J, with a player who     *)
(* selects the chips in list order and builds the route in selection order. *)

WideNames == { <<32, 78>> }

WideData(id) ==
  { d \in NewGameData(id, {FullPool}) :
      d.homeCity = FullPool[1] /\ d.distanceMatrix[1][2] = 50 }

\* the first chip that is neither home nor selected
NextChip ==
  { c \in CityChips :
      /\ Some(c) # homeCity
      /\ ~Includes(selectedCities, c)
      /\ \A j \in 1..Len(cities) :
           (cities[j] = c) =>
             \A k \in 1..(j - 1) :
               Some(cities[k]) = homeCity \/ Includes(selectedCities, cities[k]) }

\* the first selected city that is not in the route yet
NextStop ==
  { selectedCities[j] : j \in { j \in 1..Len(selectedCities) :
      /\ ~Includes(routeBetween, selectedCities[j])
      /\ \A k \in 1..(j - 1) : Includes(routeBetween, selectedCities[k]) } }

NextWide ==
  \/ \E v \in WideNames : setPlayerName(v)
  \/ startNewGame
  \/ \E r \in newGameReqs :
       \E data \in WideData(NextSessionId) :
         \E draw \in DrawsFor(data.cities) : newGameSucceeded(r, data, draw)
  \/ \E r \in newGameReqs : \E f \in ErrorFields : newGameFailed(r, f)
  \/ \E r \in newGameReqs : \E m \in ThrownMessages : newGameThrew(r, m)
  \/ \E c \in NextChip : toggleSelectedCity(c)
  \/ \E c \in NextStop : RoutePanelShown /\ addToRoute(c)
  \/ RoutePanelShown /\ clearRoute
  \/ SubmitEnabled /\ submitAnswer
  \/ \E i \in 1..Len(checkReqs) : \E ok \in BOOLEAN : checkSucceeded(i, ok)
  \/ \E i \in 1..Len(checkReqs) : \E f \in ErrorFields : checkFailed(i, f)
  \/ \E i \in 1..Len(checkReqs) : \E m \in ThrownMessages : checkThrew(i, m)

SpecWide == Init /\ [][NextWide]_vars

-----------------------------------------------------------------------------
(* Every check-answer request completes: fetch resolves or rejects, and the  *)
(* code after the await then runs (lines 237-244).                           *)

CheckResponse ==
  \E i \in 1..Len(checkReqs) :
    \/ \E ok \in BOOLEAN : checkSucceeded(i, ok)
    \/ \E f \in ErrorFields : checkFailed(i, f)
    \/ \E m \in ThrownMessages : checkThrew(i, m)

SpecLive == Init /\ [][Next]_vars /\ WF_vars(CheckResponse)

-----------------------------------------------------------------------------
(* Properties *)

\* a check-answer request is sent in this step; SentBody is its JSON body
Sent == Len(checkReqs') = Len(checkReqs) + 1
SentBody == checkReqs'[Len(checkReqs')]

NoRepeat(s) == \A i, j \in 1..Len(s) : s[i] = s[j] => i = j

Occurrences(s, x) == Cardinality({i \in 1..Len(s) : s[i] = x})

\* C1 as stated: every check-answer request carries the session id and a route
\* that begins with homeCity and ends with homeCity.
C1_RequestRouteHomeToHome ==
  [][Sent =>
       /\ Some(SentBody.sessionId) = sessionId
       /\ Len(SentBody.routeBetween) >= 1
       /\ Some(SentBody.routeBetween[1]) = homeCity
       /\ Some(SentBody.routeBetween[Len(SentBody.routeBetween)]) = homeCity]_vars

\* C1 amended: every check-answer request carries the session id and, as its
\* route, the non-empty routeBetween: the stops between the two visits of home.
\* homeCity does not occur in the route that is sent.
C1_RequestCarriesRouteBetween ==
  [][Sent =>
       /\ Some(SentBody.sessionId) = sessionId
       /\ SentBody.routeBetween = routeBetween
       /\ Len(SentBody.routeBetween) >= 1
       /\ homeCity # Null
       /\ \A i \in 1..Len(SentBody.routeBetween) :
            Some(SentBody.routeBetween[i]) # homeCity]_vars

\* a request is in flight for the session and route on the page
C1_Witness ==
  /\ Len(checkReqs) = 1
  /\ loading
  /\ Some(checkReqs[1].sessionId) = sessionId
  /\ checkReqs[1].routeBetween = routeBetween
  /\ Len(routeBetween) = 2

\* C2 as stated: when a check-answer request is sent, each city in
\* selectedCities occurs exactly once in the routeBetween that is sent.
C2_RouteCoversSelection ==
  [][Sent =>
       \A c \in Range(selectedCities) :
         Occurrences(SentBody.routeBetween, c) = 1]_vars

\* C2 amended: when a check-answer request is sent, every city of the route that
\* is sent is in selectedCities and occurs exactly once in the route; a selected
\* city occurs in it at most once and may be missing from it.
C2_RouteWithinSelection ==
  [][Sent =>
       /\ \A i \in 1..Len(SentBody.routeBetween) :
            /\ Includes(selectedCities, SentBody.routeBetween[i])
            /\ Occurrences(SentBody.routeBetween, SentBody.routeBetween[i]) = 1
       /\ \A c \in Range(selectedCities) :
            Occurrences(SentBody.routeBetween, c) <= 1]_vars

\* a request is in flight whose route leaves out a selected city
C2_Witness ==
  /\ Len(checkReqs) = 1
  /\ checkReqs[1].routeBetween = routeBetween
  /\ Len(selectedCities) = 2
  /\ Len(routeBetween) = 1
  /\ Includes(selectedCities, routeBetween[1])

\* C3 as stated: at most 8 cities are selected in every reachable state, and no
\* check-answer request carries more than 8 cities.
C3_AtMostEightSelected ==
  /\ Len(selectedCities) <= MaxSelected
  /\ \A i \in 1..Len(checkReqs) : Len(checkReqs[i].routeBetween) <= MaxSelected

\* C4: submitAnswer sends a request only with a session id, a non-blank name and
\* a non-empty route; otherwise it sends nothing, sets error to a message, leaves
\* loading false and leaves the session, the selection and the route unchanged.
C4_SubmitValidates ==
  [][/\ Sent => /\ sessionId # Null
                /\ ~BlankName(playerName)
                /\ Len(routeBetween) > 0
     /\ (/\ SubmitEnabled
         /\ submitAnswer
         /\ (sessionId = Null \/ BlankName(playerName) \/ Len(routeBetween) = 0))
        => /\ checkReqs' = checkReqs
           /\ error' # Null
           /\ loading' = FALSE
           /\ UNCHANGED <<sessionId, cities, homeCity, distanceMatrix,
                          selectedCities, routeBetween>>]_vars

\* a submission without a route was rejected
C4_Witness ==
  /\ error = Some("Build a route by clicking on selected cities.")
  /\ sessionId # Null
  /\ ~BlankName(playerName)
  /\ Len(selectedCities) > 0
  /\ Len(routeBetween) = 0
  /\ checkReqs = <<>>
  /\ ~loading

\* C5 as stated: after a failed new-game or check-answer response with body
\* { error: message }, error equals message, for every message; result and the
\* session are not touched.
C5_ErrorVerbatimAlways ==
  [][/\ \A r \in newGameReqs : \A f \in ErrorFields \ {Null} :
          newGameFailed(r, f) =>
            /\ error' = f
            /\ result' = result
            /\ UNCHANGED sessionVars
     /\ \A i \in 1..Len(checkReqs) : \A f \in ErrorFields \ {Null} :
          checkFailed(i, f) =>
            /\ error' = f
            /\ result' = result
            /\ UNCHANGED sessionVars]_vars

\* C5 amended: after a failed new-game or check-answer response with body
\* { error: message } and a non-empty message, error equals message; with an
\* empty message error is the handler's fixed text ("Failed to start game",
\* "Failed to check answer").  In both cases result and the session are not touched.
C5_ErrorVerbatimWhenNonEmpty ==
  [][/\ \A r \in newGameReqs : \A f \in ErrorFields \ {Null} :
          newGameFailed(r, f) =>
            /\ error' = (IF f[1] = "" THEN Some("Failed to start game") ELSE f)
            /\ result' = result
            /\ UNCHANGED sessionVars
     /\ \A i \in 1..Len(checkReqs) : \A f \in ErrorFields \ {Null} :
          checkFailed(i, f) =>
            /\ error' = (IF f[1] = "" THEN Some("Failed to check answer") ELSE f)
            /\ result' = result
            /\ UNCHANGED sessionVars]_vars

\* a failed response's message is on the page
C5_Witness ==
  /\ error = Some("Session not found")
  /\ result = Null
  /\ sessionId # Null
  /\ ~loading

\* the values a successful new-game response body gives the four session fields
SessionOf(data) ==
  <<Some(data.sessionId), data.cities, Some(data.homeCity), data.distanceMatrix>>

\* C6: sessionId, cities, homeCity and distanceMatrix change only in the step
\* that handles a successful new-game response, where all four take the values
\* of that response; a step of any other handler (toggleSelectedCity,
\* addToRoute, clearRoute, submitAnswer and its three outcomes, startNewGame up
\* to its request, a failed or thrown new-game request) never changes them.
C6_SessionReadOnly ==
  [][(sessionVars' # sessionVars) =>
       /\ \E r \in newGameReqs :
            \E data \in NewGameData(NextSessionId, CityLists) :
              /\ sessionVars' = SessionOf(data)
              /\ \E draw \in DrawsFor(data.cities) : newGameSucceeded(r, data, draw)
       /\ ~(\/ \E c \in CityChips : toggleSelectedCity(c)
            \/ \E c \in CityChips : addToRoute(c)
            \/ clearRoute
            \/ submitAnswer
            \/ startNewGame
            \/ \E r \in newGameReqs : \E f \in ErrorFields : newGameFailed(r, f)
            \/ \E r \in newGameReqs : \E m \in ThrownMessages : newGameThrew(r, m)
            \/ \E i \in 1..Len(checkReqs) : \E ok \in BOOLEAN : checkSucceeded(i, ok)
            \/ \E i \in 1..Len(checkReqs) : \E f \in ErrorFields : checkFailed(i, f)
            \/ \E i \in 1..Len(checkReqs) : \E m \in ThrownMessages : checkThrew(i, m))]_vars

\* a round's session is installed, the player has built a route on it, and a
\* later new-game request has failed
C6_Witness ==
  /\ lastOk # Null
  /\ lastOk[1].req = 1
  /\ sessionVars = SessionOf(lastOk[1].data)
  /\ newGameReqs = {}
  /\ issued = 2
  /\ error = Some("Failed to start game")
  /\ Len(routeBetween) > 0

\* C7: a check-answer request is sent only after a new-game response has
\* succeeded; it carries the session id of the last successful new-game response
\* handled and a route made only of cities of that response's city list.
C7_RequestFollowsNewGame ==
  [][Sent =>
       /\ lastOk # Null
       /\ SentBody.sessionId = lastOk[1].data.sessionId
       /\ Range(SentBody.routeBetween) \subseteq Range(lastOk[1].data.cities)]_vars

\* a request for the second round is in flight
C7_Witness ==
  /\ Len(checkReqs) = 1
  /\ lastOk # Null
  /\ lastOk[1].data.sessionId = 2
  /\ checkReqs[1].sessionId = 2
  /\ Len(checkReqs[1].routeBetween) > 0

\* C8 as stated: result and error are never both non-null.
C8_ResultXorError == ~(result # Null /\ error # Null)

\* C9: routeBetween has no city twice and only selected cities; toggling a
\* selected city off removes it from the route; addToRoute of a city that is
\* unselected or already in the route leaves the route unchanged.
C9_RouteWithinSelectionNoRepeat ==
  /\ [](/\ NoRepeat(routeBetween)
        /\ Range(routeBetween) \subseteq Range(selectedCities))
  /\ [][/\ \A c \in CityChips :
             (toggleSelectedCity(c) /\ Includes(selectedCities, c) /\ Some(c) # homeCity)
               => /\ ~Includes(selectedCities', c)
                  /\ ~Includes(routeBetween', c)
                  /\ routeBetween' = Without(routeBetween, c)
        /\ \A c \in CityChips :
             (addToRoute(c) /\ (~Includes(selectedCities, c) \/ Includes(routeBetween, c)))
               => routeBetween' = routeBetween]_vars

\* every selected city is in the route
C9_Witness ==
  /\ Len(selectedCities) = 2
  /\ Len(routeBetween) = 2
  /\ routeBetween # selectedCities

\* C10: homeCity is never in selectedCities or routeBetween, and every city in
\* them is in the current cities list.
C10_SelectionAmongNonHomeCities ==
  /\ \A i \in 1..Len(selectedCities) : Some(selectedCities[i]) # homeCity
  /\ \A i \in 1..Len(routeBetween) : Some(routeBetween[i]) # homeCity
  /\ Range(selectedCities) \subseteq Range(cities)
  /\ Range(routeBetween) \subseteq Range(cities)

\* a second round with another home city was installed while a third request
\* is in flight, and the first round's home city is selected now
C10_Witness ==
  /\ lastOk # Null
  /\ lastOk[1].data.sessionId = 2
  /\ homeCity = Some("B")
  /\ Includes(selectedCities, "A")
  /\ Includes(routeBetween, "A")

\* C11 as stated: whenever result is non-null, the check-answer request that
\* produced it was sent with the sessionId that is stored now.
C11_ResultOfCurrentSession ==
  result # Null => Some(result[1].sessionId) = sessionId

\* C12 as stated: whenever result is non-null, routeBetween is the route the
\* request that produced it was sent with, and every step of toggleSelectedCity,
\* addToRoute or clearRoute that changes the selection or the route leaves
\* result null.
C12_ResultOfCurrentRoute ==
  /\ [](result # Null => routeBetween = result[1].routeBetween)
  /\ [][(/\ \/ \E c \in CityChips : toggleSelectedCity(c)
            \/ \E c \in CityChips : addToRoute(c)
            \/ clearRoute
         /\ <<selectedCities, routeBetween>>' # <<selectedCities, routeBetween>>)
        => result' = Null]_vars

\* C13: a submitAnswer that sends a request sets loading to true; every outcome
\* of the request (success, failure status, thrown error) sets it back to false;
\* loading is never true without a request outstanding; and, as every request
\* completes, loading that is true becomes false again.
C13_LoadingEndsWithRequest ==
  /\ [](checkReqs = <<>> => ~loading)
  /\ [][/\ Sent => loading'
        /\ (Len(checkReqs') < Len(checkReqs)) => ~loading']_vars
  /\ (loading ~> ~loading)

\* a request has thrown and loading is false again
C13_Witness ==
  /\ error = Some("Failed to fetch")
  /\ ~loading
  /\ checkReqs = <<>>
  /\ newGameReqs = {}
  /\ issued = 1
  /\ lastOk # Null
  /\ Len(routeBetween) > 0

\* C14: at most one check-answer request is in flight; while loading is true the
\* submit button is disabled, and startNewGame, toggleSelectedCity, addToRoute
\* and clearRoute remain available (startNewGame up to the MaxGames requests
\* of a behaviour).
C14_OneCheckInFlight ==
  /\ Len(checkReqs) <= 1
  /\ loading =>
       /\ ~SubmitEnabled
       /\ (BlankName(playerName) \/ issued < MaxGames) => ENABLED startNewGame
       /\ \A c \in CityChips : ENABLED toggleSelectedCity(c)
       /\ \A c \in CityChips : RoutePanelShown => ENABLED addToRoute(c)
       /\ RoutePanelShown => ENABLED clearRoute

\* with a request in flight a new-game request was sent and the route was
\* changed
C14_Witness ==
  /\ Len(checkReqs) = 1
  /\ loading
  /\ newGameReqs # {}
  /\ RoutePanelShown
  /\ routeBetween # checkReqs[1].routeBetween

\* C15 as stated: once every new-game request has completed, all of them
\* successfully, the installed session is the one returned for the request
\* issued last.  (Session ids count the successful responses, so all issued
\* requests have succeeded when the last id equals the number issued.)
C15_LastIssuedWins ==
  (/\ newGameReqs = {}
   /\ issued >= 2
   /\ lastOk # Null
   /\ lastOk[1].data.sessionId = issued)
  => /\ lastOk[1].req = issued
     /\ sessionVars = SessionOf(lastOk[1].data)

\* C16: in the state right after a successful new-game response is handled,
\* selectedCities and routeBetween are empty and cityPositions has a position
\* for exactly the cities of that response.
C16_FreshRoundAfterNewGame ==
  [][(lastOk' # lastOk) =>
       /\ selectedCities' = <<>>
       /\ routeBetween' = <<>>
       /\ DOMAIN cityPositions' = Range(lastOk'[1].data.cities)
       /\ cities' = lastOk'[1].data.cities]_vars

\* the second round is installed, with a shorter city list, while a request
\* with a route built on the first round is still in flight
C16_Witness ==
  /\ lastOk # Null
  /\ lastOk[1].data.sessionId = 2
  /\ Len(cities) = 2
  /\ DOMAIN cityPositions = Range(cities)
  /\ selectedCities = <<>>
  /\ routeBetween = <<>>
  /\ Len(checkReqs) = 1
  /\ checkReqs[1].sessionId = 1
  /\ Includes(checkReqs[1].routeBetween, "C")

====
